---- MODULE Spec2Model ----
(***************************************************************************)
(* Catmull-Clark subdivision (src/src/catmull_clark.cpp): the adjacency    *)
(* model built by meshToModel, one subdivision pass                        *)
(* (applyCatmullClarkSubdivisionOnce) and the iteration driver             *)
(* (applyCatmullClarkSubdivision).                                         *)
(*                                                                         *)
(* Positions are Vec3 values with exact rational coordinates <<num, den>>  *)
(* in lowest terms (den > 0), so equality of two positions is equality of  *)
(* the tuples, as the bit-exact key comparison of the code is on values    *)
(* without rounding.  Containers are sequences; the indices stored in      *)
(* records are the 0-based indices of the code, read with At.              *)
(***************************************************************************)
EXTENDS Integers, Sequences, FiniteSets, TLC

\* ------------------------------------------------------------------ bounds
MaxFaces == 2
MaxIter == 2
MaxPassFaces == 8

\* ------------------------------------------------- rational / Vec3 algebra
Abs(x) == IF x < 0 THEN -x ELSE x

\* TRUE; evaluating it makes TLC compute x now rather than inside a later,
\* more deeply nested evaluation
Known(x) == x = x

\* Euclid's algorithm, four remainders per level of recursion
RECURSIVE Gcd(_, _)
Gcd(a, b) ==
    IF b = 0 THEN a
    ELSE LET r1 == a % b
         IN  IF r1 = 0 THEN b
             ELSE LET r2 == b % r1
                  IN  IF r2 = 0 THEN r1
                      ELSE LET r3 == r1 % r2
                           IN  IF r3 = 0 THEN r2
                               ELSE LET r4 == r2 % r3
                                    IN  IF r4 = 0 THEN r3 ELSE Gcd(r3, r4)

Rat(n, d) ==
    LET g == Gcd(Abs(n), Abs(d))
        s == IF d < 0 THEN -1 ELSE 1
    IN  <<(s * n) \div g, (s * d) \div g>>

\* sums and products reduce before they multiply, to keep the integers small
RAdd(p, q) ==
    LET g == Gcd(p[2], q[2])
    IN  Rat(p[1] * (q[2] \div g) + q[1] * (p[2] \div g), (p[2] \div g) * q[2])
RMul(p, q) ==
    LET g1 == Gcd(Abs(p[1]), q[2])
        g2 == Gcd(Abs(q[1]), p[2])
    IN  IF p[1] = 0 \/ q[1] = 0 THEN <<0, 1>>
        ELSE Rat((p[1] \div g1) * (q[1] \div g2), (p[2] \div g2) * (q[2] \div g1))

Zero3 == <<Rat(0, 1), Rat(0, 1), Rat(0, 1)>>
VAdd(u, v) == <<RAdd(u[1], v[1]), RAdd(u[2], v[2]), RAdd(u[3], v[3])>>
VScale(r, v) == <<RMul(r, v[1]), RMul(r, v[2]), RMul(r, v[3])>>
VDiv(v, n) == VScale(Rat(1, n), v)
P3(x, y, z) == <<Rat(x, 1), Rat(y, 1), Rat(z, 1)>>

\* ------------------------------------------------------ 0-based containers
At(s, i) == s[i + 1]
Indices(s) == 0 .. (Len(s) - 1)
SetAt(s, i, v) == [s EXCEPT ![i + 1] = v]
Neg4 == <<-1, -1, -1, -1>>

RECURSIVE SumAt(_, _, _)
\* acc + s[k] + ... + s[Len(s)], the "+=" loops over Vec3 values
SumAt(s, k, acc) ==
    IF k > Len(s) THEN acc
    ELSE LET next == VAdd(acc, s[k])
         IN  IF Known(next) THEN SumAt(s, k + 1, next) ELSE next

EmptyMap == [k \in {} |-> 0]
MapErase(m, k) == [x \in (DOMAIN m) \ {k} |-> m[x]]
MapPut(m, k, v) == [x \in (DOMAIN m) \cup {k} |-> IF x = k THEN v ELSE m[x]]

\* ------------------------------------------------------------ record types
VertexRecord(position) == [position |-> position, edges |-> <<>>, faces |-> <<>>]

EdgeRecord(low, high) ==
    [low_vertex |-> low, high_vertex |-> high, face_count |-> 0, faces |-> <<-1, -1>>]

FaceRecord(isQuad, vertices, edges) ==
    [isQuad |-> isQuad, vertices |-> vertices, edges |-> edges]

EmptyModel ==
    [vertices |-> <<>>, edges |-> <<>>, faces |-> <<>>,
     positionToVertex |-> EmptyMap, vertexPairToEdge |-> EmptyMap]

EmptyMesh == [vertices |-> <<>>, faces |-> <<>>]

VertexCount(f) == IF f.isQuad THEN 4 ELSE 3

\* ---------------------------------------------------------- Model methods
\* mutant of getVertexIndex: a record is inserted without looking the position up
getVertexIndexNoLookup(model, position) ==
    LET ret == Len(model.vertices)
    IN  [model |-> [model EXCEPT
                       !.vertices = Append(@, VertexRecord(position)),
                       !.positionToVertex = MapPut(@, position, ret)],
         ret |-> ret]

\* Model::getVertexIndex: the index of the vertex at position, inserted if new
getVertexIndex(model, position) ==
    IF position \in DOMAIN model.positionToVertex
    THEN [model |-> model, ret |-> model.positionToVertex[position]]
    ELSE LET ret == Len(model.vertices)
         IN  [model |-> [model EXCEPT
                            !.vertices = Append(@, VertexRecord(position)),
                            !.positionToVertex = MapPut(@, position, ret)],
              ret |-> ret]

\* mutant of SortedVertexPair: the pair is used as given
SortedVertexPairAsGiven(vertexPair) == vertexPair

\* the key of vertexPairToEdge: vertexPair.x < vertexPair.y ? vertexPair : yx()
SortedVertexPair(vertexPair) ==
    IF vertexPair[1] < vertexPair[2] THEN vertexPair ELSE <<vertexPair[2], vertexPair[1]>>

\* Model::getEdgeIndex: the index of the edge of the vertex pair, inserted if new
getEdgeIndex(model, vertexPair) ==
    LET sortedVertexPair == SortedVertexPair(vertexPair)
    IN  IF sortedVertexPair \in DOMAIN model.vertexPairToEdge
        THEN [model |-> model, ret |-> model.vertexPairToEdge[sortedVertexPair]]
        ELSE LET ret == Len(model.edges)
             IN  [model |-> [model EXCEPT
                                !.edges = Append(@, EdgeRecord(sortedVertexPair[1],
                                                               sortedVertexPair[2])),
                                !.vertexPairToEdge = MapPut(@, sortedVertexPair, ret)],
                  ret |-> ret]

\* Model::moveVertex: erase the old key, throw if the new key is present,
\* else re-key the vertex and store its new position
MoveThrows(model, vertexIndex, newPosition) ==
    LET oldPosition == At(model.vertices, vertexIndex).position
    IN  newPosition \in DOMAIN MapErase(model.positionToVertex, oldPosition)

moveVertex(model, vertexIndex, newPosition) ==
    LET oldPosition == At(model.vertices, vertexIndex).position
        erased == MapErase(model.positionToVertex, oldPosition)
    IN  [model EXCEPT
            !.positionToVertex = MapPut(erased, newPosition, vertexIndex),
            !.vertices[vertexIndex + 1].position = newPosition]

\* ------------------------------------------------------------ meshToModel
\* first loop of the body: resolve the corner positions to vertex indices
RECURSIVE ResolveVertices(_, _, _, _)
ResolveVertices(model, positions, i, vertexIndices) ==
    IF i >= Len(positions)
    THEN [model |-> model, vertexIndices |-> vertexIndices]
    ELSE LET r == getVertexIndex(model, At(positions, i))
         IN  IF Known(r)
             THEN ResolveVertices(r.model, positions, i + 1,
                                  SetAt(vertexIndices, i, r.ret))
             ELSE r

\* mutant of ResolveEdges: side i ends at the corner after the next one
RECURSIVE ResolveEdgesSkipCorner(_, _, _, _, _)
ResolveEdgesSkipCorner(model, vertexIndices, vertexCount, i, edgeIndices) ==
    IF i >= vertexCount
    THEN [model |-> model, edgeIndices |-> edgeIndices]
    ELSE LET startVertex == At(vertexIndices, i)
             endVertex   == At(vertexIndices, (i + 2) % vertexCount)
             r           == getEdgeIndex(model, <<startVertex, endVertex>>)
             m1 == [r.model EXCEPT !.vertices[startVertex + 1].edges = Append(@, r.ret)]
             m2 == [m1 EXCEPT !.vertices[endVertex + 1].edges = Append(@, r.ret)]
         IN  IF Known(m2)
             THEN ResolveEdgesSkipCorner(m2, vertexIndices, vertexCount, i + 1,
                                         SetAt(edgeIndices, i, r.ret))
             ELSE r

\* second loop: resolve each side to an edge index and record it at both ends
RECURSIVE ResolveEdges(_, _, _, _, _)
ResolveEdges(model, vertexIndices, vertexCount, i, edgeIndices) ==
    IF i >= vertexCount
    THEN [model |-> model, edgeIndices |-> edgeIndices]
    ELSE LET startVertex == At(vertexIndices, i)
             endVertex   == At(vertexIndices, (i + 1) % vertexCount)
             r           == getEdgeIndex(model, <<startVertex, endVertex>>)
             m1 == [r.model EXCEPT !.vertices[startVertex + 1].edges = Append(@, r.ret)]
             m2 == [m1 EXCEPT !.vertices[endVertex + 1].edges = Append(@, r.ret)]
         IN  IF Known(m2)
             THEN ResolveEdges(m2, vertexIndices, vertexCount, i + 1,
                               SetAt(edgeIndices, i, r.ret))
             ELSE r

\* fourth loop: the face index goes to the face list of each corner
RECURSIVE RecordVertexFaces(_, _, _, _, _)
RecordVertexFaces(model, vertexIndices, vertexCount, i, faceIndex) ==
    IF i >= vertexCount THEN model
    ELSE LET next == [model EXCEPT
                         !.vertices[At(vertexIndices, i) + 1].faces = Append(@, faceIndex)]
         IN  IF Known(next)
             THEN RecordVertexFaces(next, vertexIndices, vertexCount, i + 1, faceIndex)
             ELSE next

\* mutant of AttachFace: a face reaching a full edge replaces its second face
AttachFaceOverwrite(edgeRecord, faceIndex) ==
    IF edgeRecord.face_count >= 2
    THEN [edgeRecord EXCEPT !.faces[2] = faceIndex]
    ELSE [edgeRecord EXCEPT !.faces[edgeRecord.face_count + 1] = faceIndex,
                            !.face_count = @ + 1]

\* the body of the fifth loop: an edge record takes at most two faces
AttachFace(edgeRecord, faceIndex) ==
    IF edgeRecord.face_count >= 2 THEN edgeRecord
    ELSE [edgeRecord EXCEPT !.faces[edgeRecord.face_count + 1] = faceIndex,
                            !.face_count = @ + 1]

RECURSIVE RecordEdgeFaces(_, _, _, _, _)
RecordEdgeFaces(model, edgeIndices, edgeCount, i, faceIndex) ==
    IF i >= edgeCount THEN model
    ELSE LET next == [model EXCEPT
                         !.edges[At(edgeIndices, i) + 1] = AttachFace(@, faceIndex)]
         IN  IF Known(next)
             THEN RecordEdgeFaces(next, edgeIndices, edgeCount, i + 1, faceIndex)
             ELSE next

\* one iteration of "for(auto &f : mesh.faces)": positions are the values read
\* from mesh.vertices[f.indices[i]].position for i < vertexCount
MeshToModelFace(model, f, positions) ==
    LET vertexCount == VertexCount(f)
        rv == ResolveVertices(model, positions, 0, Neg4)
        re == ResolveEdges(rv.model, rv.vertexIndices, vertexCount, 0, Neg4)
        faceIndex == Len(re.model.faces)
        withFace == [re.model EXCEPT !.faces =
                        Append(@, FaceRecord(f.isQuad, rv.vertexIndices, re.edgeIndices))]
        withVF == RecordVertexFaces(withFace, rv.vertexIndices, vertexCount, 0, faceIndex)
    IN  IF Known(rv) /\ Known(re) /\ Known(withVF)
        THEN RecordEdgeFaces(withVF, re.edgeIndices, vertexCount, 0, faceIndex)
        ELSE model


\* the whole of meshToModel on a mesh whose indices are all in range
RECURSIVE MeshToModelFrom(_, _, _)
MeshToModelFrom(model, mesh, k) ==
    IF k >= Len(mesh.faces) THEN model
    ELSE LET f == At(mesh.faces, k)
             positions == [c \in 1 .. VertexCount(f) |-> At(mesh.vertices, f.indices[c])]
             next == MeshToModelFace(model, f, positions)
         IN  IF Known(next) THEN MeshToModelFrom(next, mesh, k + 1) ELSE next

meshToModel(mesh) == MeshToModelFrom(EmptyModel, mesh, 0)

\* ---------------------------------------- applyCatmullClarkSubdivisionOnce
Half == Rat(1, 2)
Quarter == Rat(1, 4)

\* mutant of FacePoint: the corner sum is always divided by 3
FacePointThird(model, f) ==
    LET corners == [j \in 1 .. VertexCount(f) |->
                        At(model.vertices, f.vertices[j]).position]
    IN  VDiv(SumAt(corners, 1, Zero3), 3)

\* face point: vertexSum / float(vertexCount)
FacePoint(model, f) ==
    LET vertexCount == VertexCount(f)
        corners == [j \in 1 .. vertexCount |->
                        At(model.vertices, f.vertices[j]).position]
        vertexSum == SumAt(corners, 1, Zero3)
    IN  IF Known(vertexSum) THEN VDiv(vertexSum, vertexCount) ELSE vertexSum

ComputeFacePoints(model) ==
    [k \in 1 .. Len(model.faces) |-> FacePoint(model, model.faces[k])]

\* edge point: the midpoint unless face_count is 2, else the four-point mean
EdgePoint(model, fPoints, e) ==
    LET ends == VAdd(At(model.vertices, e.low_vertex).position,
                     At(model.vertices, e.high_vertex).position)
    IN  IF e.face_count # 2
        THEN (IF Known(ends) THEN VScale(Half, ends) ELSE ends)
        ELSE LET withF0 == VAdd(ends, At(fPoints, e.faces[1]))
                 withF1 == VAdd(withF0, At(fPoints, e.faces[2]))
             IN  IF Known(ends) /\ Known(withF0) /\ Known(withF1)
                 THEN VScale(Quarter, withF1)
                 ELSE ends

ComputeEdgePoints(model, fPoints) ==
    [k \in 1 .. Len(model.edges) |-> EdgePoint(model, fPoints, model.edges[k])]

SnapshotPositions(model) ==
    [k \in 1 .. Len(model.vertices) |-> model.vertices[k].position]

\* m1 * old + m2 * avgFacePosition + m3 * avgEdgeMid for vertex i, the edge
\* midpoints being averaged over the entries of es
Reposition(model, fPoints, oldPos, i, es) ==
    LET v == At(model.vertices, i)
        n == Len(v.faces)
        m1 == Rat(n - 3, n)
        m2 == Rat(1, n)
        m3 == Rat(2, n)
        faceTerms == [j \in 1 .. n |-> At(fPoints, v.faces[j])]
        faceSum == SumAt(faceTerms, 1, Zero3)
        avgFacePosition == IF Known(faceSum) THEN VDiv(faceSum, n) ELSE faceSum
        edgeTerms == [j \in 1 .. Len(es) |->
                        LET edge == At(model.edges, es[j])
                        IN  VScale(Half, VAdd(At(oldPos, edge.low_vertex),
                                              At(oldPos, edge.high_vertex)))]
        edgeSum == SumAt(edgeTerms, 1, Zero3)
        avgEdgeMid == IF Known(edgeSum) THEN VDiv(edgeSum, Len(es)) ELSE edgeSum
        t1 == VScale(m1, At(oldPos, i))
        t2 == VScale(m2, avgFacePosition)
        t3 == VScale(m3, avgEdgeMid)
        t12 == VAdd(t1, t2)
    IN  IF Known(avgFacePosition) /\ Known(avgEdgeMid) /\ Known(t1) /\ Known(t2)
            /\ Known(t3) /\ Known(t12)
        THEN VAdd(t12, t3)
        ELSE t1

\* the new position of vertex i: "for(auto edgeIndex : v.edges)" visits every
\* entry of the vertex's edge list
NewPosition(model, fPoints, oldPos, i) ==
    Reposition(model, fPoints, oldPos, i, At(model.vertices, i).edges)

QuadFace(a, b, c, d) == [isQuad |-> TRUE, indices |-> <<a, b, c, d>>]

\* mutant of LookupSides: the lookup for side i asks for the side after it
RECURSIVE LookupSidesNextSide(_, _, _, _, _)
LookupSidesNextSide(model, f, vertexCount, i, found) ==
    IF i >= vertexCount THEN [model |-> model, found |-> found]
    ELSE LET r == getEdgeIndex(model, <<At(f.vertices, (i + 1) % vertexCount),
                                       At(f.vertices, (i + 2) % vertexCount)>>)
         IN  IF Known(r)
             THEN LookupSidesNextSide(r.model, f, vertexCount, i + 1, Append(found, r.ret))
             ELSE r

\* the edge lookups of one face during re-tessellation, in code order
RECURSIVE LookupSides(_, _, _, _, _)
LookupSides(model, f, vertexCount, i, found) ==
    IF i >= vertexCount THEN [model |-> model, found |-> found]
    ELSE LET r == getEdgeIndex(model, <<At(f.vertices, i),
                                       At(f.vertices, (i + 1) % vertexCount)>>)
         IN  IF Known(r)
             THEN LookupSides(r.model, f, vertexCount, i + 1, Append(found, r.ret))
             ELSE r

\* mutant of QuadFaceQuads: each quad starts at its corner instead of at the
\* edge point before it
QuadFaceQuadsCornerFirst(aIndex) ==
    << QuadFace(aIndex, aIndex + 4, aIndex + 8, aIndex + 7),
       QuadFace(aIndex + 1, aIndex + 5, aIndex + 8, aIndex + 4),
       QuadFace(aIndex + 2, aIndex + 6, aIndex + 8, aIndex + 5),
       QuadFace(aIndex + 3, aIndex + 7, aIndex + 8, aIndex + 6) >>

\* the quads pushed for a quad face whose first new vertex is aIndex
QuadFaceQuads(aIndex) ==
    LET bIndex == aIndex + 1
        cIndex == aIndex + 2
        dIndex == aIndex + 3
        eabIndex == aIndex + 4
        ebcIndex == aIndex + 5
        ecdIndex == aIndex + 6
        edaIndex == aIndex + 7
        fabcdIndex == aIndex + 8
    IN  << QuadFace(edaIndex, aIndex, eabIndex, fabcdIndex),
           QuadFace(eabIndex, bIndex, ebcIndex, fabcdIndex),
           QuadFace(ebcIndex, cIndex, ecdIndex, fabcdIndex),
           QuadFace(ecdIndex, dIndex, edaIndex, fabcdIndex) >>

\* mutant of TriangleFaceQuads: a triangle split into one quad and one triangle
TriangleFaceMixed(aIndex) ==
    << QuadFace(aIndex + 5, aIndex, aIndex + 3, aIndex + 6),
       [isQuad |-> FALSE, indices |-> <<aIndex + 1, aIndex + 2, aIndex + 6, 0>>] >>

\* the quads pushed for a triangle whose first new vertex is aIndex
TriangleFaceQuads(aIndex) ==
    LET bIndex == aIndex + 1
        cIndex == aIndex + 2
        eabIndex == aIndex + 3
        ebcIndex == aIndex + 4
        ecaIndex == aIndex + 5
        fabcIndex == aIndex + 6
    IN  << QuadFace(ecaIndex, aIndex, eabIndex, fabcIndex),
           QuadFace(eabIndex, bIndex, ebcIndex, fabcIndex),
           QuadFace(ebcIndex, cIndex, ecaIndex, fabcIndex) >>

\* mutant of FaceVertices: the face point is pushed before the edge points
FaceVerticesFacePointEarly(model, f, ePoints, fPoints, sides, faceIdx) ==
    LET n == VertexCount(f)
    IN  [c \in 1 .. n |-> At(model.vertices, f.vertices[c]).position]
        \o << At(fPoints, faceIdx) >>
        \o [c \in 1 .. n |-> At(ePoints, sides[c])]

\* the vertices pushed for a face: corners, edge points, face point
FaceVertices(model, f, ePoints, fPoints, sides, faceIdx) ==
    IF f.isQuad
    THEN << At(model.vertices, f.vertices[1]).position,
            At(model.vertices, f.vertices[2]).position,
            At(model.vertices, f.vertices[3]).position,
            At(model.vertices, f.vertices[4]).position,
            At(ePoints, sides[1]), At(ePoints, sides[2]),
            At(ePoints, sides[3]), At(ePoints, sides[4]),
            At(fPoints, faceIdx) >>
    ELSE << At(model.vertices, f.vertices[1]).position,
            At(model.vertices, f.vertices[2]).position,
            At(model.vertices, f.vertices[3]).position,
            At(ePoints, sides[1]), At(ePoints, sides[2]), At(ePoints, sides[3]),
            At(fPoints, faceIdx) >>

\* one iteration of the re-tessellation loop
TessellateFace(model, ePoints, fPoints, faceIdx, out) ==
    LET f == At(model.faces, faceIdx)
        ls == LookupSides(model, f, VertexCount(f), 0, <<>>)
        aIndex == Len(out.vertices)
    IN  [model |-> ls.model,
         sidesInRange |-> \A k \in 1 .. Len(ls.found) : ls.found[k] < Len(ePoints),
         newMesh |-> [vertices |-> out.vertices \o
                          FaceVertices(model, f, ePoints, fPoints, ls.found, faceIdx),
                      faces |-> out.faces \o
                          (IF f.isQuad THEN QuadFaceQuads(aIndex)
                                       ELSE TriangleFaceQuads(aIndex))]]

\* ------------------------------------------------------------ input meshes
Tri(a, b, c) == [isQuad |-> FALSE, indices |-> <<a, b, c, 0>>]
Quad(a, b, c, d) == [isQuad |-> TRUE, indices |-> <<a, b, c, d>>]

\* six vertices; index 4 repeats the position of index 0
PaletteVertices ==
    << P3(0, 0, 0), P3(5, 0, 0), P3(1, 0, 0), P3(0, 1, 0), P3(0, 0, 0), P3(2, 2, 0) >>

\* faces over the palette: collinear and proper triangles, a convex quad, a
\* face through a repeated position, and a face with an index past the end
PaletteFaces ==
    { Tri(0, 1, 2), Tri(0, 2, 3), Quad(0, 2, 5, 3), Tri(4, 3, 2), Tri(0, 2, 4),
      Tri(3, 5, 6) }

RECURSIVE SeqsUpTo(_, _)
SeqsUpTo(S, n) ==
    IF n = 0 THEN {<<>>}
    ELSE LET shorter == SeqsUpTo(S, n - 1)
         IN  shorter \cup {Append(q, x) : q \in shorter, x \in S}

PaletteMeshes ==
    {[vertices |-> PaletteVertices, faces |-> fs] : fs \in SeqsUpTo(PaletteFaces, MaxFaces)}

CubeFaces ==
    << Quad(0, 1, 3, 2), Quad(4, 6, 7, 5), Quad(0, 4, 5, 1),
       Quad(2, 3, 7, 6), Quad(0, 2, 6, 4), Quad(1, 5, 7, 3) >>

\* the unit cube, vertex index = 4x + 2y + z
UnitCube ==
    [vertices |-> << P3(0, 0, 0), P3(0, 0, 1), P3(0, 1, 0), P3(0, 1, 1),
                     P3(1, 0, 0), P3(1, 0, 1), P3(1, 1, 0), P3(1, 1, 1) >>,
     faces |-> CubeFaces]

\* the connectivity of the cube with all eight vertices in one plane: the
\* x = 0 face is the outer square and the x = 1 face the inner square
FlatCube ==
    [vertices |-> << P3(0, 0, 0), P3(0, 4, 0), P3(4, 0, 0), P3(4, 4, 0),
                     P3(1, 1, 0), P3(1, 3, 0), P3(3, 1, 0), P3(3, 3, 0) >>,
     faces |-> CubeFaces]

\* three triangles on one edge (vertices 0 and 1), the third on its far side
ThreeFins ==
    [vertices |-> << P3(0, 0, 0), P3(1, 0, 0), P3(0, 1, 0), P3(0, 0, 1), P3(0, -2, 0) >>,
     faces |-> << Tri(0, 1, 2), Tri(1, 0, 3), Tri(0, 1, 4) >>]

InputMeshes == PaletteMeshes \cup {UnitCube, FlatCube, ThreeFins}

\* what a read past the end of mesh.vertices can yield
GarbagePositions == {P3(0, 0, 0), P3(7, 7, 7)}

\* ------------------------------------------------------------------- state
VARIABLES
    originalMesh,    \* the caller's mesh (the const reference argument)
    callerMesh,      \* the value the caller's mesh had when the call was made
    iterationCount,  \* the argument
    pc,              \* position in the driver and in the pass
    mesh,            \* the driver's local mesh
    i,               \* the driver's loop counter
    model,           \* the adjacency model of the current pass
    fi,              \* face loop counter (build and re-tessellation)
    facePoints, edgePoints, oldPositions,
    vi,              \* vertex loop counter of the repositioning loop
    newMesh          \* the output mesh of the current pass

vars == <<originalMesh, callerMesh, iterationCount, pc, mesh, i, model, fi,
          facePoints, edgePoints, oldPositions, vi, newMesh>>

passVars == <<model, fi, facePoints, edgePoints, oldPositions, vi, newMesh>>
argVars == <<originalMesh, callerMesh, iterationCount>>

Init ==
    /\ originalMesh \in InputMeshes
    /\ callerMesh = originalMesh
    /\ iterationCount \in -1 .. MaxIter
    /\ pc = "call"
    /\ mesh = EmptyMesh
    /\ i = 0
    /\ model = EmptyModel
    /\ fi = 0
    /\ facePoints = <<>>
    /\ edgePoints = <<>>
    /\ oldPositions = <<>>
    /\ vi = 0
    /\ newMesh = EmptyMesh

\* --------------------------------------------- applyCatmullClarkSubdivision
\* assert(iterationCount >= 0) in a build that keeps assertions
AssertAbort ==
    /\ pc = "call"
    /\ iterationCount < 0
    /\ pc' = "aborted"
    /\ UNCHANGED <<argVars, mesh, i, passVars>>

\* Mesh mesh = originalMesh; the assertion passed or is compiled out (NDEBUG)
Enter ==
    /\ pc = "call"
    /\ mesh' = originalMesh
    /\ i' = 0
    /\ pc' = "loop"
    /\ UNCHANGED <<argVars, passVars>>

\* mutant of LoopContinues: an off-by-one loop condition
LoopContinuesInclusive(k, count) == k <= count

\* the loop condition of the driver
LoopContinues(k, count) == k < count

\* loop test true: meshToModel starts on an empty model
BeginPass ==
    /\ pc = "loop"
    /\ LoopContinues(i, iterationCount)
    /\ model' = EmptyModel
    /\ fi' = 0
    /\ pc' = "build"
    /\ UNCHANGED <<argVars, mesh, i, facePoints, edgePoints, oldPositions, vi, newMesh>>

\* loop test false: return mesh
Return ==
    /\ pc = "loop"
    /\ ~LoopContinues(i, iterationCount)
    /\ pc' = "done"
    /\ UNCHANGED <<argVars, mesh, i, passVars>>

IndexInRange(m, f) == \A c \in 1 .. VertexCount(f) : f.indices[c] < Len(m.vertices)

\* the values mesh.vertices[index].position can yield
CornerRead(m, index) ==
    IF index < Len(m.vertices) THEN {At(m.vertices, index)} ELSE GarbagePositions

\* one face of meshToModel
BuildFace ==
    /\ pc = "build"
    /\ fi < Len(mesh.faces)
    /\ LET f == At(mesh.faces, fi)
       IN  \E pa \in CornerRead(mesh, f.indices[1]), pb \in CornerRead(mesh, f.indices[2]),
              pc3 \in CornerRead(mesh, f.indices[3]) :
              \E pd \in (IF f.isQuad THEN CornerRead(mesh, f.indices[4]) ELSE {Zero3}) :
                 model' = MeshToModelFace(model, f,
                              IF f.isQuad THEN <<pa, pb, pc3, pd>> ELSE <<pa, pb, pc3>>)
    /\ fi' = fi + 1
    /\ UNCHANGED <<argVars, pc, mesh, i, facePoints, edgePoints, oldPositions, vi, newMesh>>

\* a read past the end of mesh.vertices that faults
BuildCrash ==
    /\ pc = "build"
    /\ fi < Len(mesh.faces)
    /\ ~IndexInRange(mesh, At(mesh.faces, fi))
    /\ pc' = "crashed"
    /\ UNCHANGED <<argVars, mesh, i, passVars>>

FacePointsStage ==
    /\ pc = "build"
    /\ fi = Len(mesh.faces)
    /\ Len(mesh.faces) <= MaxPassFaces
    /\ facePoints' = ComputeFacePoints(model)
    /\ pc' = "edgePoints"
    /\ UNCHANGED <<argVars, mesh, i, model, fi, edgePoints, oldPositions, vi, newMesh>>

EdgePointsStage ==
    /\ pc = "edgePoints"
    /\ edgePoints' = ComputeEdgePoints(model, facePoints)
    /\ pc' = "snapshot"
    /\ UNCHANGED <<argVars, mesh, i, model, fi, facePoints, oldPositions, vi, newMesh>>

SnapshotStage ==
    /\ pc = "snapshot"
    /\ oldPositions' = SnapshotPositions(model)
    /\ vi' = 0
    /\ pc' = "move"
    /\ UNCHANGED <<argVars, mesh, i, model, fi, facePoints, edgePoints, newMesh>>

\* one iteration of the repositioning loop, moveVertex returning normally
MoveVertexStep ==
    /\ pc = "move"
    /\ vi < Len(model.vertices)
    /\ LET newPosition == NewPosition(model, facePoints, oldPositions, vi)
       IN  /\ ~MoveThrows(model, vi, newPosition)
           /\ model' = moveVertex(model, vi, newPosition)
    /\ vi' = vi + 1
    /\ UNCHANGED <<argVars, pc, mesh, i, fi, facePoints, edgePoints, oldPositions, newMesh>>

\* moveVertex throwing std::runtime_error, which leaves the driver
MoveVertexThrow ==
    /\ pc = "move"
    /\ vi < Len(model.vertices)
    /\ MoveThrows(model, vi, NewPosition(model, facePoints, oldPositions, vi))
    /\ pc' = "thrown"
    /\ UNCHANGED <<argVars, mesh, i, passVars>>

BeginTessellation ==
    /\ pc = "move"
    /\ vi = Len(model.vertices)
    /\ newMesh' = EmptyMesh
    /\ fi' = 0
    /\ pc' = "tess"
    /\ UNCHANGED <<argVars, mesh, i, model, facePoints, edgePoints, oldPositions, vi>>

TessellateStep ==
    /\ pc = "tess"
    /\ fi < Len(model.faces)
    /\ LET r == TessellateFace(model, edgePoints, facePoints, fi, newMesh)
       IN  /\ model' = r.model
           /\ newMesh' = r.newMesh
    /\ fi' = fi + 1
    /\ UNCHANGED <<argVars, pc, mesh, i, facePoints, edgePoints, oldPositions, vi>>

\* mesh = applyCatmullClarkSubdivisionOnce(...); ++i
EndPass ==
    /\ pc = "tess"
    /\ fi = Len(model.faces)
    /\ mesh' = newMesh
    /\ i' = i + 1
    /\ pc' = "loop"
    /\ UNCHANGED <<argVars, passVars>>

Next ==
    \/ AssertAbort
    \/ Enter
    \/ BeginPass
    \/ Return
    \/ BuildFace
    \/ BuildCrash
    \/ FacePointsStage
    \/ EdgePointsStage
    \/ SnapshotStage
    \/ MoveVertexStep
    \/ MoveVertexThrow
    \/ BeginTessellation
    \/ TessellateStep
    \/ EndPass

Spec == Init /\ [][Next]_vars

TypeOK == pc \in {"call", "aborted", "loop", "build", "crashed", "edgePoints",
                  "snapshot", "move", "thrown", "tess", "done"}

\* ================================================================ claims
RECURSIVE Pow4(_)
Pow4(n) == IF n <= 0 THEN 1 ELSE 4 * Pow4(n - 1)

NumQuads(m) == Cardinality({k \in 1 .. Len(m.faces) : m.faces[k].isQuad})
NumTriangles(m) == Cardinality({k \in 1 .. Len(m.faces) : ~m.faces[k].isQuad})

AllInRange(m) == \A k \in 1 .. Len(m.faces) : IndexInRange(m, m.faces[k])

\* C1: with iteration count 0 the returned mesh has the vertex sequence and the
\* face sequence (quad flags and indices) of the input, and in every state of a
\* call, whatever the count, the caller's mesh has the value it had at the call.
C1_ZeroIterationsIdentity ==
    /\ originalMesh = callerMesh
    /\ (pc = "done" /\ iterationCount = 0) =>
          /\ mesh.vertices = callerMesh.vertices
          /\ mesh.faces = callerMesh.faces

C1_Witness ==
    /\ pc = "done"
    /\ iterationCount = 0
    /\ Len(mesh.faces) >= 1
    /\ mesh = originalMesh

\* C2: a call with k >= 1 that returns has run exactly k passes, each built
\* from the previous pass's output, and returns (4Q + 3T) * 4^(k-1) faces, all
\* of them quads, Q and T being the quad and triangle counts of the input.
C2_FaceCountAfterKPasses ==
    /\ (pc = "done" /\ iterationCount >= 1) =>
          /\ i = iterationCount
          /\ Len(mesh.faces) =
                (4 * NumQuads(originalMesh) + 3 * NumTriangles(originalMesh))
                    * Pow4(iterationCount - 1)
          /\ \A k \in 1 .. Len(mesh.faces) : mesh.faces[k].isQuad
    /\ (pc = "loop" /\ i >= 1) => mesh = newMesh
    /\ (pc = "build" /\ i >= 1) =>
          /\ mesh = newMesh
          /\ AllInRange(mesh)
          /\ Len(model.faces) = fi
          /\ \A g \in 0 .. fi - 1 :
                LET f == At(mesh.faces, g)
                    r == At(model.faces, g)
                IN  /\ r.isQuad = f.isQuad
                    /\ \A c \in 1 .. VertexCount(f) :
                          At(model.vertices, r.vertices[c]).position
                              = At(mesh.vertices, f.indices[c])

C2_Witness ==
    /\ pc = "done"
    /\ iterationCount = 2
    /\ NumQuads(originalMesh) = 1
    /\ NumTriangles(originalMesh) = 1
    /\ Len(mesh.faces) = 28

\* the number of vertices (faces) a pass has emitted before source face g
VertexOffset(fs, g) ==
    9 * Cardinality({h \in 0 .. g - 1 : At(fs, h).isQuad})
        + 7 * Cardinality({h \in 0 .. g - 1 : ~At(fs, h).isQuad})
FaceOffset(fs, g) ==
    4 * Cardinality({h \in 0 .. g - 1 : At(fs, h).isQuad})
        + 3 * Cardinality({h \in 0 .. g - 1 : ~At(fs, h).isQuad})

\* C3: during re-tessellation the output holds, for each source face already
\* processed and in face order, that face's n repositioned corners, then its n
\* edge points in side order, then its face point: 9 vertices per quad, 7 per
\* triangle, nothing shared between faces; and every index of a quad emitted for
\* a source face points into that face's own block of vertices.
C3_VertexLayout ==
    pc = "tess" =>
        /\ Len(newMesh.vertices) = VertexOffset(model.faces, fi)
        /\ Len(newMesh.faces) = FaceOffset(model.faces, fi)
        /\ \A g \in 0 .. fi - 1 :
              LET f == At(model.faces, g)
                  n == VertexCount(f)
                  base == VertexOffset(model.faces, g)
              IN  /\ \A c \in 0 .. n - 1 :
                        /\ At(newMesh.vertices, base + c)
                              = At(model.vertices, At(f.vertices, c)).position
                        /\ At(newMesh.vertices, base + n + c)
                              = At(edgePoints, At(f.edges, c))
                  /\ At(newMesh.vertices, base + 2 * n) = At(facePoints, g)
                  /\ \A q \in FaceOffset(model.faces, g) .. FaceOffset(model.faces, g + 1) - 1 :
                        \A k \in 1 .. 4 :
                            /\ At(newMesh.faces, q).indices[k] >= base
                            /\ At(newMesh.faces, q).indices[k] <= base + 2 * n

\* a quad face and then a triangle have both been emitted, and the corners of
\* the two blocks repeat a position: the shared vertex was emitted twice
C3_Witness ==
    /\ pc = "tess"
    /\ fi = 2
    /\ At(model.faces, 0).isQuad
    /\ ~At(model.faces, 1).isQuad
    /\ Len(newMesh.vertices) = 16
    /\ \E c \in 0 .. 3, d \in 9 .. 11 : At(newMesh.vertices, c) = At(newMesh.vertices, d)

\* C4: the quads of source face g are emitted in corner order, and the quad of
\* corner c lists (edge point of side c-1 mod n, corner c, edge point of side c,
\* face point), for triangles and quads alike.
C4_QuadWinding ==
    pc = "tess" =>
        \A g \in 0 .. fi - 1 :
            LET n == VertexCount(At(model.faces, g))
                base == VertexOffset(model.faces, g)
                first == FaceOffset(model.faces, g)
            IN  \A c \in 0 .. n - 1 :
                    /\ At(newMesh.faces, first + c).isQuad
                    /\ At(newMesh.faces, first + c).indices
                          = << base + n + ((c + n - 1) % n), base + c,
                               base + n + c, base + 2 * n >>

C4_Witness ==
    /\ pc = "tess"
    /\ fi = 2
    /\ ~At(model.faces, 0).isQuad
    /\ At(model.faces, 1).isQuad
    /\ Len(newMesh.faces) = 7
    /\ At(newMesh.faces, 3).indices = <<14, 7, 11, 15>>

\* ---- C5
PassEnd == pc = "tess" /\ fi = Len(model.faces)

\* the faces of m that have edge e among their sides
FacesWithEdge(m, e) ==
    {g \in Indices(m.faces) :
        \E c \in 1 .. VertexCount(At(m.faces, g)) : At(m.faces, g).edges[c] = e}

\* the number of (face, side) pairs that run along edge e
SideCount(m, e) ==
    Cardinality({gc \in Indices(m.faces) \X (1 .. 4) :
                    /\ gc[2] <= VertexCount(At(m.faces, gc[1]))
                    /\ At(m.faces, gc[1]).edges[gc[2]] = e})

\* the faces of m that have vertex v as a corner
FacesAtVertex(m, v) ==
    {g \in Indices(m.faces) :
        \E c \in 1 .. VertexCount(At(m.faces, g)) : At(m.faces, g).vertices[c] = v}

\* the edges of m that end at vertex v
EdgesAtVertex(m, v) ==
    {e \in Indices(m.edges) : At(m.edges, e).low_vertex = v \/ At(m.edges, e).high_vertex = v}

\* faces g and h meet along an edge that ends at v
AdjacentAt(m, v, g, h) ==
    \E e \in EdgesAtVertex(m, v) : {g, h} \subseteq FacesWithEdge(m, e)

\* the faces at v reached from the face set R by crossing edges at v
RECURSIVE FanFrom(_, _, _)
FanFrom(m, v, R) ==
    LET more == {h \in FacesAtVertex(m, v) : \E g \in R : AdjacentAt(m, v, g, h)} \cup R
    IN  IF more = R THEN R ELSE FanFrom(m, v, more)

\* all faces are quads with four distinct corners, every edge is a side of
\* exactly two faces, and the faces at each vertex form one closed fan
ClosedQuadManifold(m) ==
    /\ Len(m.faces) > 0
    /\ \A g \in Indices(m.faces) :
          /\ At(m.faces, g).isQuad
          /\ Cardinality({At(m.faces, g).vertices[c] : c \in 1 .. 4}) = 4
    /\ \A e \in Indices(m.edges) :
          /\ SideCount(m, e) = 2
          /\ Cardinality(FacesWithEdge(m, e)) = 2
    /\ \A v \in Indices(m.vertices) :
          LET at == FacesAtVertex(m, v)
          IN  /\ at # {}
              /\ Cardinality(EdgesAtVertex(m, v)) = Cardinality(at)
              /\ FanFrom(m, v, {CHOOSE g \in at : TRUE}) = at

Range(sq) == {sq[k] : k \in 1 .. Len(sq)}

Repositioned(m) == {m.vertices[k].position : k \in 1 .. Len(m.vertices)}

\* the positions the pass computed: new corners, edge points, face points
ComputedPoints == Repositioned(model) \cup Range(edgePoints) \cup Range(facePoints)

UnitCubeCentroids ==
    << <<Rat(0, 1), Rat(1, 2), Rat(1, 2)>>, <<Rat(1, 1), Rat(1, 2), Rat(1, 2)>>,
       <<Rat(1, 2), Rat(0, 1), Rat(1, 2)>>, <<Rat(1, 2), Rat(1, 1), Rat(1, 2)>>,
       <<Rat(1, 2), Rat(1, 2), Rat(0, 1)>>, <<Rat(1, 2), Rat(1, 2), Rat(1, 1)>> >>

\* C5 as claimed: a completed pass on a closed all-quad manifold with V
\* vertices, E edges and F faces emits 4F quads and exactly V + E + F distinct
\* positions.
C5_ExactlyVEFPositions ==
    (PassEnd /\ ClosedQuadManifold(model)) =>
        /\ Len(newMesh.faces) = 4 * Len(model.faces)
        /\ Cardinality(Range(newMesh.vertices))
              = Len(model.vertices) + Len(model.edges) + Len(model.faces)

\* C5 amended: a completed pass on a closed all-quad manifold emits 4F quads
\* and the distinct positions of its vertex list are the V new corner
\* positions, the E edge points and the F face points: at most V + E + F of
\* them, and V + E + F exactly when no edge point or face point coincides with
\* another computed point.  The builder run on a pass's output makes one vertex
\* record per distinct output position.  For the unit cube: 24 quads, 26
\* distinct positions, each face point the centroid of its face.
C5_AtMostVEFPositions ==
    /\ (PassEnd /\ ClosedQuadManifold(model)) =>
          LET V == Len(model.vertices)
              E == Len(model.edges)
              F == Len(model.faces)
              distinct == Cardinality(Range(newMesh.vertices))
          IN  /\ Len(newMesh.faces) = 4 * F
              /\ Range(newMesh.vertices) = ComputedPoints
              /\ Cardinality(Repositioned(model)) = V
              /\ distinct <= V + E + F
              /\ (distinct = V + E + F) <=>
                    /\ Cardinality(Range(edgePoints)) = E
                    /\ Cardinality(Range(facePoints)) = F
                    /\ Range(edgePoints) \cap Range(facePoints) = {}
                    /\ Repositioned(model) \cap
                          (Range(edgePoints) \cup Range(facePoints)) = {}
    /\ (pc = "build" /\ i >= 1 /\ fi = Len(mesh.faces)) =>
          Len(model.vertices) = Cardinality(Range(mesh.vertices))
    /\ (PassEnd /\ originalMesh = UnitCube /\ i = 0) =>
          /\ ClosedQuadManifold(model)
          /\ Len(model.vertices) = 8 /\ Len(model.edges) = 12 /\ Len(model.faces) = 6
          /\ Len(newMesh.faces) = 24
          /\ Cardinality(Range(newMesh.vertices)) = 26
          /\ facePoints = UnitCubeCentroids

\* the second build has read the whole output of the pass on the unit cube
C5_Witness ==
    /\ pc = "build"
    /\ i = 1
    /\ originalMesh = UnitCube
    /\ fi = 24
    /\ Len(model.vertices) = 26


\* ---- C6
NewPositions ==
    {NewPosition(model, facePoints, oldPositions, a) : a \in Indices(model.vertices)}

\* C6 as claimed: the repositioning loop throws exactly when the new positions
\* computed for two different vertices are equal.
C6_ThrowsIffNewPositionsCollide ==
    pc \in {"thrown", "tess"} =>
        (pc = "thrown" <=> Cardinality(NewPositions) < Len(model.vertices))

\* ---- C7
\* C7 as claimed: a negative iteration count or a face index past the end of
\* the vertex list is reported before the driver does anything else: the loop
\* is never entered, no such index is read, and no mesh is returned.
C7_PreconditionsReported ==
    /\ iterationCount < 0 => pc \in {"call", "aborted"}
    /\ (iterationCount >= 1 /\ ~AllInRange(originalMesh)) =>
          /\ pc \notin {"done", "thrown", "crashed"}
          /\ (pc = "build" /\ i = 0) =>
                \A g \in 0 .. fi - 1 : IndexInRange(mesh, At(mesh.faces, g))

\* ---- C8
\* the entries of sq without repetitions, in order of first occurrence
RECURSIVE Distinct(_, _, _)
Distinct(sq, k, acc) ==
    IF k > Len(sq) THEN acc
    ELSE Distinct(sq, k + 1, IF sq[k] \in Range(acc) THEN acc ELSE Append(acc, sq[k]))

\* C8 as claimed: every vertex already moved in the pass sits at
\* m1*old + m2*avgFace + m3*avgEdgeMidpoint, the edge midpoints averaged over
\* the edges incident to the vertex, each counted once.
C8_EachIncidentEdgeOnce ==
    pc \in {"move", "tess"} =>
        \A v \in 0 .. vi - 1 :
            At(model.vertices, v).position
                = Reposition(model, facePoints, oldPositions, v,
                             Distinct(At(model.vertices, v).edges, 1, <<>>))

\* ---- C9, C10
Midpoint(m, e) ==
    VScale(Half, VAdd(At(m.vertices, e.low_vertex).position,
                      At(m.vertices, e.high_vertex).position))

\* C9 as claimed: an edge that is a side of just one face gets the midpoint of
\* its endpoints as its edge point.
C9_OneFaceEdgeIsMidpoint ==
    pc = "snapshot" =>
        \A e \in Indices(model.edges) :
            Cardinality(FacesWithEdge(model, e)) = 1 =>
                At(edgePoints, e) = Midpoint(model, At(model.edges, e))

Min(S) == CHOOSE x \in S : \A y \in S : x <= y

\* C10 as claimed: an edge that is a side of two or more faces gets
\* 0.25 * (P0 + P1 + F0 + F1), F0 and F1 being the face points of the first two
\* faces, in face order, that have the edge as a side.
C10_FirstTwoFaces ==
    pc = "snapshot" =>
        \A e \in Indices(model.edges) :
            LET touching == FacesWithEdge(model, e)
                f0 == Min(touching)
                f1 == Min(touching \ {f0})
                r == At(model.edges, e)
            IN  Cardinality(touching) >= 2 =>
                    At(edgePoints, e)
                        = VScale(Quarter,
                                 VAdd(VAdd(At(model.vertices, r.low_vertex).position,
                                           At(model.vertices, r.high_vertex).position),
                                      VAdd(At(facePoints, f0), At(facePoints, f1))))

\* ---- C11
\* the build has processed some faces of the caller's mesh, or all the faces of
\* the output of a pass
FacesProcessed == pc = "build" /\ (i = 0 \/ fi = Len(mesh.faces))

\* the (face, side) pairs of m whose corner pair is the vertex pair of edge e
SidesOn(m, e) ==
    LET ends == <<At(m.edges, e).low_vertex, At(m.edges, e).high_vertex>>
    IN  {gc \in Indices(m.faces) \X (1 .. 4) :
            LET g == At(m.faces, gc[1])
                n == VertexCount(g)
            IN  /\ gc[2] <= n
                /\ SortedVertexPair(<<g.vertices[gc[2]], g.vertices[(gc[2] % n) + 1]>>)
                      = ends}

\* the first pair of S in face order, then side order
FirstSide(S) ==
    CHOOSE x \in S :
        \A y \in S : x[1] < y[1] \/ (x[1] = y[1] /\ x[2] <= y[2])

\* the faces[] array an edge has after the (face, side) pairs S have reached it
FacesAfter(S) ==
    IF S = {} THEN <<-1, -1>>
    ELSE LET first == FirstSide(S)
             rest  == S \ {first}
         IN  IF rest = {} THEN <<first[1], -1>>
             ELSE <<first[1], FirstSide(rest)[1]>>

\* C11: after the faces processed by the build every edge record has face_count
\* 1 or 2 and valid face indices in its first face_count slots; the record holds
\* the first two sides that reached the edge, so a third or later side leaves
\* face_count and faces[] as they were, and the build goes on; every face with
\* a side on the edge lists the edge's index at that side and is in the
\* incident-face list of each of its corners.
C11_EdgeFacesSaturate ==
    FacesProcessed =>
        /\ \A e \in Indices(model.edges) :
              LET r == At(model.edges, e)
                  sides == SidesOn(model, e)
              IN  /\ r.face_count \in {1, 2}
                  /\ \A k \in 1 .. r.face_count : r.faces[k] \in Indices(model.faces)
                  /\ r.face_count = (IF Cardinality(sides) >= 2 THEN 2 ELSE 1)
                  /\ r.faces = FacesAfter(sides)
                  /\ \A gc \in sides : At(model.faces, gc[1]).edges[gc[2]] = e
        /\ \A g \in Indices(model.faces) :
              \A c \in 1 .. VertexCount(At(model.faces, g)) :
                 LET at == At(model.vertices, At(model.faces, g).vertices[c]).faces
                 IN  \E k \in 1 .. Len(at) : at[k] = g
        /\ Len(model.faces) = fi

\* the build has gone past the third triangle on the edge of vertices 0 and 1:
\* the edge still holds the first two, the third lists it
C11_Witness ==
    /\ pc = "build"
    /\ originalMesh = ThreeFins
    /\ i = 0
    /\ fi = 3
    /\ Cardinality(SidesOn(model, 0)) = 3
    /\ At(model.edges, 0).face_count = 2
    /\ At(model.edges, 0).faces = <<0, 1>>
    /\ At(model.faces, 2).edges[1] = 0
    /\ 2 \in Range(At(model.vertices, 0).faces)

\* ---- C12
\* the corners of the faces built so far, as (face, corner) pairs
Corners(m) ==
    {gc \in Indices(m.faces) \X (1 .. 4) : gc[2] <= VertexCount(At(m.faces, gc[1]))}

\* corner x comes before corner y in the face-by-face, corner-by-corner scan
ScannedBefore(x, y) == x[1] < y[1] \/ (x[1] = y[1] /\ x[2] < y[2])

\* indices of msh.vertices that hold the first occurrence of their position
FirstOccurrences(msh) ==
    {k \in Indices(msh.vertices) :
        \A j \in 0 .. k - 1 : At(msh.vertices, j) # At(msh.vertices, k)}

\* the index position p has once the repeated vertices are dropped, firsts
\* being the first occurrences
RankOf(msh, firsts, p) ==
    LET k == CHOOSE x \in firsts : At(msh.vertices, x) = p
    IN  Cardinality({j \in firsts : j < k})

\* msh with one vertex per distinct position and the faces re-indexed
Deduplicated(msh) ==
    LET firsts == FirstOccurrences(msh)
    IN  [vertices |-> [r \in 1 .. Cardinality(firsts) |->
                          At(msh.vertices,
                             CHOOSE k \in firsts :
                                Cardinality({j \in firsts : j < k}) = r - 1)],
         faces |-> [g \in 1 .. Len(msh.faces) |->
                       [isQuad |-> msh.faces[g].isQuad,
                        indices |-> [c \in 1 .. 4 |->
                            IF c <= VertexCount(msh.faces[g])
                            THEN RankOf(msh, firsts, At(msh.vertices, msh.faces[g].indices[c]))
                            ELSE msh.faces[g].indices[c]]]]]

\* C12: after the faces processed by the build no two vertex records have the
\* same position; positionToVertex has exactly the records' positions as keys and
\* maps each to its record's index; two corners of the input get the same
\* vertex index exactly when their positions are equal; a corner's index is one
\* seen earlier in the scan or the number of indices seen earlier; hence the
\* mesh and its deduplicated equivalent give the same model.
C12_VerticesMergedByPosition ==
    FacesProcessed =>
        /\ \A a, b \in Indices(model.vertices) :
              At(model.vertices, a).position = At(model.vertices, b).position => a = b
        /\ DOMAIN model.positionToVertex = Repositioned(model)
        /\ \A a \in Indices(model.vertices) :
              model.positionToVertex[At(model.vertices, a).position] = a
        /\ LET read == {x \in Corners(model) : IndexInRange(mesh, At(mesh.faces, x[1]))}
           IN  \A x, y \in read :
                  At(model.faces, x[1]).vertices[x[2]] = At(model.faces, y[1]).vertices[y[2]]
                  <=> At(mesh.vertices, At(mesh.faces, x[1]).indices[x[2]])
                         = At(mesh.vertices, At(mesh.faces, y[1]).indices[y[2]])
        /\ LET corners == Corners(model)
           IN  \A x \in corners :
                  LET earlier == {At(model.faces, y[1]).vertices[y[2]] :
                                     y \in {z \in corners : ScannedBefore(z, x)}}
                      index == At(model.faces, x[1]).vertices[x[2]]
                  IN  index \in earlier \/ index = Cardinality(earlier)
        /\ Len(model.vertices)
              = Cardinality({At(model.faces, x[1]).vertices[x[2]] : x \in Corners(model)})
        /\ (fi = Len(mesh.faces) /\ AllInRange(mesh) /\ Len(mesh.faces) <= MaxPassFaces) =>
              LET deduplicated == Deduplicated(mesh)
              IN  /\ AllInRange(deduplicated)
                  /\ Len(deduplicated.vertices) = Cardinality(Range(mesh.vertices))
                  /\ model = meshToModel(deduplicated)

\* two triangles built, the second starting at index 4, which repeats the
\* position of index 0: both corners are vertex 0 and four records exist
C12_Witness ==
    /\ pc = "build"
    /\ i = 0
    /\ fi = 2
    /\ mesh.faces = <<Tri(0, 1, 2), Tri(4, 3, 2)>>
    /\ Len(model.vertices) = 4
    /\ At(model.faces, 0).vertices = <<0, 1, 2, -1>>
    /\ At(model.faces, 1).vertices = <<0, 3, 2, -1>>
    /\ Deduplicated(mesh).faces = <<Tri(0, 1, 2), Tri(0, 3, 2)>>

\* ---- C13
\* the vertex pairs of the edge records of m
EdgePairs(m) ==
    {<<At(m.edges, e).low_vertex, At(m.edges, e).high_vertex>> : e \in Indices(m.edges)}

\* C13: in every state each edge record has low_vertex <= high_vertex and is
\* the value of vertexPairToEdge at (low_vertex, high_vertex), the map has no
\* other keys and there are as many unordered pairs as records; for each side
\* of each face, getEdgeIndex returns the same index for the corner pair in
\* either order, the index the face stores for that side, without inserting.
C13_OneEdgePerUnorderedPair ==
    /\ \A e \in Indices(model.edges) :
          LET r == At(model.edges, e)
          IN  /\ r.low_vertex <= r.high_vertex
              /\ <<r.low_vertex, r.high_vertex>> \in DOMAIN model.vertexPairToEdge
              /\ model.vertexPairToEdge[<<r.low_vertex, r.high_vertex>>] = e
    /\ DOMAIN model.vertexPairToEdge = EdgePairs(model)
    /\ Cardinality({{At(model.edges, e).low_vertex, At(model.edges, e).high_vertex} :
                        e \in Indices(model.edges)}) = Len(model.edges)
    /\ \A x \in Corners(model) :
          LET g == At(model.faces, x[1])
              a == g.vertices[x[2]]
              b == g.vertices[(x[2] % VertexCount(g)) + 1]
              ab == getEdgeIndex(model, <<a, b>>)
              ba == getEdgeIndex(model, <<b, a>>)
          IN  /\ ab.ret = ba.ret
              /\ ab.ret = g.edges[x[2]]
              /\ Len(ab.model.edges) = Len(model.edges)
              /\ Len(ba.model.edges) = Len(model.edges)
              /\ {At(model.edges, ab.ret).low_vertex, At(model.edges, ab.ret).high_vertex}
                    = {a, b}

\* the first two triangles of the three on one edge run along it in opposite
\* directions, (0, 1) and (1, 0), and share edge 0; five edges exist
C13_Witness ==
    /\ pc = "build"
    /\ originalMesh = ThreeFins
    /\ i = 0
    /\ fi = 2
    /\ At(model.faces, 0).vertices = <<0, 1, 2, -1>>
    /\ At(model.faces, 1).vertices = <<1, 0, 3, -1>>
    /\ At(model.faces, 0).edges[1] = 0
    /\ At(model.faces, 1).edges[1] = 0
    /\ Len(model.edges) = 5

\* ---- C14
\* C14: each face record built has the quad flag of its input face; its first
\* n slots (n = 4 for a quad, 3 for a triangle) hold indices of vertex records
\* and of edge records and the other slots hold -1; corner c is the record at
\* the position of the input face's corner c; edge c is the edge record whose
\* endpoints are corner c and the corner after it, cyclically.
C14_FaceRecordShape ==
    pc = "build" =>
        \A g \in Indices(model.faces) :
            LET rec == At(model.faces, g)
                f == At(mesh.faces, g)
                n == VertexCount(rec)
            IN  /\ rec.isQuad = f.isQuad
                /\ n = (IF f.isQuad THEN 4 ELSE 3)
                /\ DOMAIN rec.vertices = 1 .. 4
                /\ DOMAIN rec.edges = 1 .. 4
                /\ \A c \in 1 .. 4 :
                      IF c <= n
                      THEN /\ rec.vertices[c] \in Indices(model.vertices)
                           /\ rec.edges[c] \in Indices(model.edges)
                      ELSE /\ rec.vertices[c] = -1
                           /\ rec.edges[c] = -1
                /\ \A c \in 1 .. n :
                      f.indices[c] < Len(mesh.vertices) =>
                         At(model.vertices, rec.vertices[c]).position
                            = At(mesh.vertices, f.indices[c])
                /\ \A c \in 1 .. n :
                      LET r == At(model.edges, rec.edges[c])
                      IN  {r.low_vertex, r.high_vertex}
                             = {rec.vertices[c], rec.vertices[(c % n) + 1]}

\* a triangle and then a quad built from the palette: the quad's record has
\* four corners and four edges, the triangle's has -1 in its fourth slots
C14_Witness ==
    /\ pc = "build"
    /\ i = 0
    /\ fi = 2
    /\ mesh.faces = <<Tri(0, 1, 2), Quad(0, 2, 5, 3)>>
    /\ At(model.faces, 0).vertices = <<0, 1, 2, -1>>
    /\ At(model.faces, 0).edges = <<0, 1, 2, -1>>
    /\ At(model.faces, 1).vertices = <<0, 2, 3, 4>>
    /\ At(model.faces, 1).edges = <<2, 3, 4, 5>>

\* ---- C15
\* how many entries of sq are x
Occurrences(sq, x) == Cardinality({k \in 1 .. Len(sq) : sq[k] = x})

\* C15 as claimed: during and after the build every vertex record has at least
\* one incident face, one face entry for each of its appearances as a face
\* corner and twice as many edge entries as face entries; an edge shared by two
\* faces appears twice in the edge list of each of its endpoints.
C15_TwoEdgeEntriesPerCorner ==
    pc = "build" =>
        /\ \A v \in Indices(model.vertices) :
              LET r == At(model.vertices, v)
              IN  /\ Len(r.faces) >= 1
                  /\ Len(r.faces)
                        = Cardinality({x \in Corners(model) :
                                          At(model.faces, x[1]).vertices[x[2]] = v})
                  /\ Len(r.edges) = 2 * Len(r.faces)
        /\ \A e \in Indices(model.edges) :
              Cardinality(FacesWithEdge(model, e)) = 2 =>
                 /\ Occurrences(At(model.vertices, At(model.edges, e).low_vertex).edges, e) = 2
                 /\ Occurrences(At(model.vertices, At(model.edges, e).high_vertex).edges, e) = 2

\* ---- C16
\* the steps of a pass, from the end of the build to the end of the pass
PassStep ==
    /\ pc \in {"build", "edgePoints", "snapshot", "move", "tess"}
    /\ pc' # "build"

\* everything of the model but the vertex positions and positionToVertex
TopologyKept ==
    /\ model'.edges = model.edges
    /\ model'.vertexPairToEdge = model.vertexPairToEdge
    /\ model'.faces = model.faces
    /\ Len(model'.vertices) = Len(model.vertices)
    /\ \A v \in Indices(model.vertices) :
          /\ At(model'.vertices, v).edges = At(model.vertices, v).edges
          /\ At(model'.vertices, v).faces = At(model.vertices, v).faces

\* the lookups of the face about to be re-tessellated find its stored edges
LookupsFindStoredEdges ==
    LET f == At(model.faces, fi)
        n == VertexCount(f)
        ls == LookupSides(model, f, n, 0, <<>>)
    IN  /\ ls.model.edges = model.edges
        /\ ls.model.vertexPairToEdge = model.vertexPairToEdge
        /\ Len(ls.found) = n
        /\ \A c \in 1 .. n :
              /\ ls.found[c] = f.edges[c]
              /\ ls.found[c] \in Indices(edgePoints)

\* C16: no step of a pass changes the edge list, vertexPairToEdge, the face
\* list, the number of vertex records or their incident-edge and incident-face
\* lists; in each step of the re-tessellation loop the lookup for side c of the
\* face returns the face record's stored edge c without inserting a record, an
\* index inside the edge-point array.
C16_PassKeepsTopology ==
    [][ /\ PassStep => TopologyKept
        /\ (pc = "tess" /\ fi' = fi + 1) => LookupsFindStoredEdges ]_vars

\* the pass on the unit cube has moved its vertices and re-tessellated all six
\* faces: 12 edge records, 12 keys and 12 edge points
C16_Witness ==
    /\ PassEnd
    /\ originalMesh = UnitCube
    /\ i = 0
    /\ Len(newMesh.faces) = 24
    /\ SnapshotPositions(model) # oldPositions
    /\ Len(model.edges) = 12
    /\ Cardinality(DOMAIN model.vertexPairToEdge) = 12
    /\ Len(edgePoints) = 12

====
